---- MODULE Spec2Model ----
(***************************************************************************)
(* Model of the MCP RAG API (src/app.py): the text chunker, the /ingest    *)
(* handler and the /query handler, with the embedding provider, the chat   *)
(* provider and the vector store as external collaborators whose calls     *)
(* either fail or answer within their contract.                            *)
(*                                                                         *)
(* A text is a sequence of one-character strings.  Python slices, rfind,   *)
(* the stable descending sort and the list truncation are modelled by what *)
(* they compute.                                                           *)
(***************************************************************************)
EXTENDS Integers, Sequences, FiniteSets, TLC

VARIABLES
    \* chunk_text, one loop iteration at a time
    text, chunk_size, chunk_overlap, start, chunks, ranges, cpc,
    \* the vector store and the /ingest handler
    store, ingest,
    \* the /query handler
    req, pc, search_results, searchLog, returned, chatLog, response, failure

chunkVars == <<text, chunk_size, chunk_overlap, start, chunks, ranges, cpc>>
storeVars == <<store, ingest>>
queryVars == <<req, pc, search_results, searchLog, returned, chatLog, response, failure>>
vars == <<text, chunk_size, chunk_overlap, start, chunks, ranges, cpc,
          store, ingest,
          req, pc, search_results, searchLog, returned, chatLog, response, failure>>

----------------------------------------------------------------------------
(* Bounds of the model *)

MaxLen == 5          \* longest text of the chunker specification
MaxChunkSize == 3    \* largest chunk_size of the chunker specification
MaxOverlap == 3      \* largest chunk_overlap of the chunker specification
MaxIters == 6        \* loop iterations followed before the model stops looking

(* Program constants *)

DEFAULT_CHUNK_SIZE == 1000
DEFAULT_CHUNK_OVERLAP == 200

COLLECTIONS == <<"slack", "docs", "codebase">>

CollectionSet == {COLLECTIONS[i] : i \in 1..Len(COLLECTIONS)}

----------------------------------------------------------------------------
(* Python built-ins *)

Min(a, b) == IF a < b THEN a ELSE b
Max(a, b) == IF a > b THEN a ELSE b

\* a slice bound as Python normalises it: negative counts from the end, then clamp
SliceIndex(i, n) == IF i < 0 THEN Max(i + n, 0) ELSE Min(i, n)

\* s[a:b]
PySlice(s, a, b) ==
    LET lo == SliceIndex(a, Len(s))
        hi == SliceIndex(b, Len(s))
    IN  IF hi <= lo THEN <<>> ELSE SubSeq(s, lo + 1, hi)

\* pat occurs in s at 0-based index i
OccursAt(s, pat, i) == \A j \in 1..Len(pat) : s[i + j] = pat[j]

\* the highest index in lo..hi where pat occurs in s, or -1
RECURSIVE LastOccurrence(_, _, _, _)
LastOccurrence(s, pat, lo, hi) ==
    IF lo > hi THEN -1
    ELSE IF lo = hi THEN (IF OccursAt(s, pat, lo) THEN lo ELSE -1)
    ELSE LET mid == (lo + hi) \div 2
             right == LastOccurrence(s, pat, mid + 1, hi)
         IN  IF right # -1 THEN right ELSE LastOccurrence(s, pat, lo, mid)

\* s.rfind(pat): the highest 0-based index where pat occurs in s, or -1
RFind(s, pat) == LastOccurrence(s, pat, 0, Len(s) - Len(pat))

----------------------------------------------------------------------------
(* chunk_text *)

\* the break markers, in the order the loop tries them
BreakChars == << <<"\n", "\n">>, <<"\n">>, <<".", " ">>, <<" ">> >>

\* the for loop over the break markers, from marker k on: the new end
RECURSIVE BreakEnd(_, _, _, _)
BreakEnd(t, s, e, k) ==
    IF k > Len(BreakChars) THEN e
    ELSE LET last_break == RFind(PySlice(t, s, e), BreakChars[k])
         IN  IF last_break # -1
             THEN s + last_break + Len(BreakChars[k])
             ELSE BreakEnd(t, s, e, k + 1)

\* the end of the chunk that starts at s
ChunkEnd(t, s, cs) ==
    LET e == Min(s + cs, Len(t))
    IN  IF e < Len(t) THEN BreakEnd(t, s, e, 1) ELSE e

\* the cursor after the chunk [s, e)
NextStart(s, e, cs, co) == Max(s + cs - co, e - co)

\* the while loop, as the list of [start, end) pairs it appends
RECURSIVE ChunkLoop(_, _, _, _)
ChunkLoop(t, s, cs, co) ==
    IF s < Len(t)
    THEN LET e == ChunkEnd(t, s, cs)
         IN  << <<s, e>> >> \o ChunkLoop(t, NextStart(s, e, cs, co), cs, co)
    ELSE <<>>

ChunkRanges(t, cs, co) ==
    IF Len(t) <= cs THEN << <<0, Len(t)>> >> ELSE ChunkLoop(t, 0, cs, co)

ChunkText(t, cs, co) ==
    LET r == ChunkRanges(t, cs, co)
    IN  [i \in 1..Len(r) |-> PySlice(t, r[i][1], r[i][2])]

\* chunk_text followed statement by statement
ChunkEntry ==
    /\ cpc = "entry"
    /\ IF Len(text) <= chunk_size
       THEN /\ chunks' = <<text>>
            /\ ranges' = << <<0, Len(text)>> >>
            /\ cpc' = "returned"
       ELSE /\ chunks' = <<>>
            /\ ranges' = <<>>
            /\ cpc' = "loop"
    /\ start' = 0
    /\ UNCHANGED <<text, chunk_size, chunk_overlap, storeVars, queryVars>>

ChunkIter ==
    /\ cpc = "loop"
    /\ start < Len(text)
    /\ Len(chunks) < MaxIters
    /\ LET end == ChunkEnd(text, start, chunk_size)
       IN  /\ chunks' = Append(chunks, PySlice(text, start, end))
           /\ ranges' = Append(ranges, <<start, end>>)
           /\ start' = NextStart(start, end, chunk_size, chunk_overlap)
    /\ UNCHANGED <<text, chunk_size, chunk_overlap, cpc, storeVars, queryVars>>

ChunkReturn ==
    /\ cpc = "loop"
    /\ ~(start < Len(text))
    /\ cpc' = "returned"
    /\ UNCHANGED <<text, chunk_size, chunk_overlap, start, chunks, ranges,
                   storeVars, queryVars>>

----------------------------------------------------------------------------
(* State after construction *)

NoRequest == [query |-> "", collection |-> "", top_k |-> 0]

ServiceInit ==
    /\ store = [c \in CollectionSet |-> <<>>]
    /\ ingest = [status |-> "idle"]
    /\ req = NoRequest
    /\ pc = "idle"
    /\ search_results = <<>>
    /\ searchLog = <<>>
    /\ returned = <<>>
    /\ chatLog = <<>>
    /\ response = [status |-> "none"]
    /\ failure = "none"

ChunkIdle ==
    /\ text = <<>>
    /\ chunk_size = DEFAULT_CHUNK_SIZE
    /\ chunk_overlap = DEFAULT_CHUNK_OVERLAP
    /\ start = 0
    /\ chunks = <<>>
    /\ ranges = <<>>
    /\ cpc = "idle"

----------------------------------------------------------------------------
(* Dicts *)

EmptyDict == [k \in {} |-> ""]

\* {**a, **b}: the keys of both, b's value where both have the key
Merge(a, b) ==
    [k \in DOMAIN a \cup DOMAIN b |-> IF k \in DOMAIN b THEN b[k] ELSE a[k]]

\* {k: v for k, v in d.items() if k != key}
Without(d, key) == [k \in DOMAIN d \ {key} |-> d[k]]

\* d.get(key, default)
Get(d, key, default) == IF key \in DOMAIN d THEN d[key] ELSE default

----------------------------------------------------------------------------
(* POST /ingest *)

\* the optional form fields: absent (None), or an upload / a string
NoFile == [present |-> FALSE]
Upload(name, content) == [present |-> TRUE, filename |-> name, content |-> content]
NoText == [present |-> FALSE]
FormText(t) == [present |-> TRUE, value |-> t]

\* variant: "elif text is not None", which lets the empty string through
TruthyTextNotNone(t) == t.present

\* "elif text": None and "" are falsy
TruthyText(t) == t.present /\ t.value # <<>>

\* the records built by the loop over the chunks
Points(chs, metadata) ==
    [i \in 1..Len(chs) |->
        Merge([text |-> chs[i], chunk_index |-> i - 1, total_chunks |-> Len(chs)],
              metadata)]

TotalStored == Len(store["slack"]) + Len(store["docs"]) + Len(store["codebase"])

\* No request is being handled.  Both handlers are coroutines on one event
\* loop and make their provider and store calls without awaiting (the only
\* await, file.read(), precedes every external call), so a handler runs to
\* its return before the next request is taken up.
ServerIdle == pc = "idle" /\ ingest.status = "idle"

\* The handler.  failAt = 0: every external call answers; failAt = i in
\* 1..len(chunks): the i-th embedding call raises; failAt = len(chunks) + 1: the
\* upsert raises.  An exception leaves the handler at once.
Ingest(collection, file, text_, failAt, cap) ==
    /\ ServerIdle
    /\ LET request == [collection |-> collection, file |-> file, text |-> text_]
       IN
       IF collection \notin CollectionSet
       THEN /\ ingest' = [status |-> "400", detail |-> "collection", request |-> request,
                          embedCalls |-> 0, upserts |-> 0]
            /\ store' = store
       ELSE IF ~file.present /\ ~TruthyText(text_)
       THEN /\ ingest' = [status |-> "400", detail |-> "input", request |-> request,
                          embedCalls |-> 0, upserts |-> 0]
            /\ store' = store
       ELSE LET document_text == IF file.present THEN file.content ELSE text_.value
                metadata == IF file.present
                            THEN Merge(EmptyDict, [filename |-> file.filename])
                            ELSE EmptyDict
            IN  \E chs \in {ChunkText(document_text, DEFAULT_CHUNK_SIZE,
                                       DEFAULT_CHUNK_OVERLAP)} :
                \E points \in {Points(chs, metadata)} :
                /\ failAt \in 0..(Len(chs) + 1)
                /\ TotalStored + Len(points) <= cap
                /\ IF failAt \in 1..Len(chs)
                   THEN /\ ingest' = [status |-> "500", detail |-> "embedding",
                                      request |-> request,
                                      embedCalls |-> failAt, upserts |-> 0]
                        /\ store' = store
                   ELSE IF failAt = Len(chs) + 1
                   THEN /\ ingest' = [status |-> "500", detail |-> "upsert",
                                      request |-> request,
                                      embedCalls |-> Len(chs), upserts |-> 0]
                        /\ store' = store
                   ELSE /\ ingest' = [status |-> "success", detail |-> "",
                                      request |-> request,
                                      chunks_processed |-> Len(chs),
                                      embedCalls |-> Len(chs),
                                      upserts |-> Len(points)]
                        /\ store' = IF Len(points) > 0
                                    THEN [store EXCEPT ![collection] = @ \o points]
                                    ELSE store
    /\ UNCHANGED <<chunkVars, queryVars>>

\* the response has been sent and the handler's frame is gone
IngestReturn ==
    /\ ingest.status # "idle"
    /\ ingest' = [status |-> "idle"]
    /\ UNCHANGED <<chunkVars, queryVars, store>>

----------------------------------------------------------------------------
(* POST /query *)

None == "<None>"     \* QueryRequest.collection left out

\* "request.collection and ...": None and "" are falsy
Truthy(sel) == sel # None /\ sel # ""

\* variant: no elif for "global", which then falls into the fan-out
RouteGlobalFanout(sel) ==
    IF Truthy(sel) /\ sel \in CollectionSet THEN "single" ELSE "fanout"

\* variant: only a left-out selector fans out, any other name skips the search
RouteUnknownSkips(sel) ==
    IF Truthy(sel) /\ sel \in CollectionSet THEN "single"
    ELSE IF sel = None THEN "fanout"
    ELSE "global"

\* the if / elif / else over request.collection
Route(sel) ==
    IF Truthy(sel) /\ sel \in CollectionSet THEN "single"
    ELSE IF sel = "global" THEN "global"
    ELSE "fanout"

\* limit of each search of the fan-out
FanoutLimit(top_k) == Max(1, top_k \div Len(COLLECTIONS))

Scores == {1, 2}

\* What a successful search of collection c may answer: the nearest `limit`
\* points of the collection (all of them when it holds fewer), each with a
\* similarity score, best first.
Hits(c, limit) ==
    LET n == Len(store[c])
        m == Min(Max(limit, 0), n)
        picks == {h \in [1..m -> (1..n) \X Scores] :
                    /\ \A i, j \in 1..m : i # j => h[i][1] # h[j][1]
                    /\ \A i \in 1..(m - 1) : h[i][2] >= h[i + 1][2]}
    IN  {[i \in 1..m |-> [payload |-> store[c][h[i][1]], score |-> h[i][2]]] :
            h \in picks}

\* the dict appended to search_results for one match
SearchResult(res, collection) ==
    [text |-> Get(res.payload, "text", <<>>),
     score |-> res.score,
     collection |-> collection,
     metadata |-> Without(res.payload, "text")]

Annotated(results, collection) ==
    [i \in 1..Len(results) |-> SearchResult(results[i], collection)]

\* list.sort(key=score, reverse=True): stable, equal scores keep their order
InsertDesc(sorted, x) ==
    LET k == Cardinality({i \in 1..Len(sorted) : sorted[i].score >= x.score})
    IN  SubSeq(sorted, 1, k) \o <<x>> \o SubSeq(sorted, k + 1, Len(sorted))

\* variant: the merged list is left in arrival order
SortNone(l) == l

RECURSIVE SortDesc(_)
SortDesc(l) ==
    IF l = <<>> THEN <<>>
    ELSE InsertDesc(SortDesc(SubSeq(l, 1, Len(l) - 1)), l[Len(l)])

\* search_results[:top_k]
Truncate(l, top_k) == PySlice(l, 0, top_k)

\* "\n\n".join(f"[{r['collection']}] {r['text']}" ...); the collection name is one token
RECURSIVE Context(_)
Context(l) ==
    IF l = <<>> THEN <<>>
    ELSE LET item == <<"[", l[1].collection, "]", " ">> \o l[1].text
         IN  IF Len(l) = 1 THEN item
             ELSE item \o <<"\n", "\n">> \o Context(Tail(l))

Whitespace == {" ", "\n"}

\* variant: the context never counts as empty
IsBlankNever(context) == FALSE

\* not context.strip()
IsBlank(context) == \A i \in 1..Len(context) : context[i] \in Whitespace

NoInfoAnswer == "No relevant information found in the collections. Try querying 'global' knowledge."

\* the messages sent to the chat provider
Messages(context, query) ==
    << [role |-> "system",
        content |-> IF ~IsBlank(context)
                    THEN <<"answer based on the context provided", "Context:">> \o context
                    ELSE <<"answer using your general knowledge">>],
       [role |-> "user", content |-> <<query>>] >>

\* A request arrives and get_embedding(request.query) is called; a failure of
\* the embedding provider leaves the handler.
QueryEmbed(query, sel, top_k, ok) ==
    /\ ServerIdle
    /\ req' = [query |-> query, collection |-> sel, top_k |-> top_k]
    /\ search_results' = <<>>
    /\ searchLog' = <<>>
    /\ returned' = <<>>
    /\ chatLog' = <<>>
    /\ response' = [status |-> "none"]
    /\ IF ok
       THEN /\ failure' = "none"
            /\ pc' = IF Route(sel) = "global" THEN "answer" ELSE Route(sel)
       ELSE /\ failure' = "embedding"
            /\ pc' = "failed"
    /\ UNCHANGED <<chunkVars, storeVars>>

\* the search of the one named collection: no try around it
SearchSingle(ok) ==
    /\ pc = "single"
    /\ searchLog' = Append(searchLog, [collection |-> req.collection, limit |-> req.top_k])
    /\ IF ok
       THEN \E results \in Hits(req.collection, req.top_k) :
                /\ returned' = Append(returned, [collection |-> req.collection,
                                                 ok |-> TRUE, results |-> results])
                /\ search_results' = search_results \o Annotated(results, req.collection)
                /\ pc' = "answer"
                /\ failure' = failure
       ELSE /\ returned' = Append(returned, [collection |-> req.collection,
                                             ok |-> FALSE, results |-> <<>>])
            /\ search_results' = search_results
            /\ pc' = "failed"
            /\ failure' = "search"
    /\ UNCHANGED <<chunkVars, storeVars, req, chatLog, response>>

\* variant: no try around the search of the fan-out, a failure leaves the handler
SearchFanoutNoTry(ok) ==
    /\ pc = "fanout"
    /\ LET collection == COLLECTIONS[Len(searchLog) + 1]
           limit == FanoutLimit(req.top_k)
       IN  /\ searchLog' = Append(searchLog, [collection |-> collection, limit |-> limit])
           /\ IF ok
              THEN \E results \in Hits(collection, limit) :
                       /\ returned' = Append(returned, [collection |-> collection,
                                                        ok |-> TRUE, results |-> results])
                       /\ search_results' = search_results \o Annotated(results, collection)
                       /\ pc' = IF Len(searchLog) + 1 = Len(COLLECTIONS)
                                THEN "answer" ELSE "fanout"
                       /\ failure' = failure
              ELSE /\ returned' = Append(returned, [collection |-> collection,
                                                    ok |-> FALSE, results |-> <<>>])
                   /\ search_results' = search_results
                   /\ pc' = "failed"
                   /\ failure' = "search"
    /\ UNCHANGED <<chunkVars, storeVars, req, chatLog, response>>

\* one iteration of "for collection in COLLECTIONS": try the search, log a failure
SearchFanout(ok) ==
    /\ pc = "fanout"
    /\ LET collection == COLLECTIONS[Len(searchLog) + 1]
           limit == FanoutLimit(req.top_k)
       IN  /\ searchLog' = Append(searchLog, [collection |-> collection, limit |-> limit])
           /\ IF ok
              THEN \E results \in Hits(collection, limit) :
                       /\ returned' = Append(returned, [collection |-> collection,
                                                        ok |-> TRUE, results |-> results])
                       /\ search_results' = search_results \o Annotated(results, collection)
              ELSE /\ returned' = Append(returned, [collection |-> collection,
                                                    ok |-> FALSE, results |-> <<>>])
                   /\ search_results' = search_results
           /\ pc' = IF Len(searchLog) + 1 = Len(COLLECTIONS) THEN "answer" ELSE "fanout"
    /\ UNCHANGED <<chunkVars, storeVars, req, chatLog, response, failure>>

\* sort, truncate, build the context, then the fixed answer or the chat call
Answer(ok) ==
    /\ pc = "answer"
    /\ LET sorted == Truncate(SortDesc(search_results), req.top_k)
           context == Context(sorted)
       IN  /\ search_results' = sorted
           /\ IF IsBlank(context) /\ req.collection # "global"
              THEN /\ response' = [answer |-> NoInfoAnswer]
                   /\ chatLog' = chatLog
                   /\ pc' = "done"
                   /\ failure' = failure
              ELSE /\ chatLog' = Append(chatLog, Messages(context, req.query))
                   /\ IF ok
                      THEN /\ response' = [answer |-> "chat answer", sources |-> sorted]
                           /\ pc' = "done"
                           /\ failure' = failure
                      ELSE /\ response' = response
                           /\ pc' = "failed"
                           /\ failure' = "chat"
    /\ UNCHANGED <<chunkVars, storeVars, req, searchLog, returned>>

\* the response (or the error) has been sent and the handler's frame is gone
QueryReturn ==
    /\ pc \in {"done", "failed"}
    /\ req' = NoRequest
    /\ pc' = "idle"
    /\ search_results' = <<>>
    /\ searchLog' = <<>>
    /\ returned' = <<>>
    /\ chatLog' = <<>>
    /\ response' = [status |-> "none"]
    /\ failure' = "none"
    /\ UNCHANGED <<chunkVars, storeVars>>

----------------------------------------------------------------------------
(* The service: ingests of short documents and queries, in any order *)

MaxStored == 2       \* points the store holds before the model stops ingesting
MaxTopK == 6         \* largest top_k of a query

ShortTexts == {<<"a">>, <<" ">>}
Collections400 == CollectionSet \cup {"bogus"}
Files == {NoFile, Upload("f.txt", <<>>)}
FormTexts == {NoText, FormText(<<>>)} \cup {FormText(d) : d \in ShortTexts}
Selectors == {None, "", "bogus", "global"} \cup CollectionSet
TopKs == {0, 1, 2, MaxTopK}

Init == ChunkIdle /\ ServiceInit

IngestShort ==
    \E c \in Collections400, f \in Files, t \in FormTexts, failAt \in 0..2 :
        Ingest(c, f, t, failAt, MaxStored)

Query ==
    \/ \E sel \in Selectors, k \in TopKs, ok \in BOOLEAN : QueryEmbed("q", sel, k, ok)
    \/ \E ok \in BOOLEAN : SearchSingle(ok)
    \/ \E ok \in BOOLEAN : SearchFanout(ok)
    \/ \E ok \in BOOLEAN : Answer(ok)
    \/ QueryReturn

Next == IngestShort \/ IngestReturn \/ Query

Spec == Init /\ [][Next]_vars

----------------------------------------------------------------------------
(* Ingests of 2500-character documents: a run of one base character, with  *)
(* at most one break marker written into it at some offset.                *)

DocLen == 2500
LongStored == 4      \* points the store holds before the model stops ingesting

LongText(base, marker, offset) ==
    [i \in 1..DocLen |->
        IF i - offset \in 1..Len(marker) THEN marker[i - offset] ELSE base]

MarkerOffsets == {0, 1, 500, 998, 1500, 2400}

LongDocs ==
    {LongText(base, <<>>, 0) : base \in {"a", " "}}
        \cup {LongText(base, BreakChars[k], o) :
                base \in {"a", " "}, k \in 1..Len(BreakChars), o \in MarkerOffsets}

\* every document yields at least one point, so a full store takes no more
IngestLong ==
    /\ TotalStored < LongStored
    /\ \E c \in CollectionSet, d \in LongDocs, failAt \in 0..5 :
            Ingest(c, NoFile, FormText(d), failAt, LongStored)

IngestNext == IngestLong \/ IngestReturn

IngestSpec == Init /\ [][IngestNext]_vars

----------------------------------------------------------------------------
(* The chunker on its own: every text up to MaxLen over the characters the *)
(* break search tells apart, every chunk_size and chunk_overlap in bounds. *)

Alphabet == {"a", " ", "\n", "."}

RECURSIVE TextsOfLen(_)
TextsOfLen(n) ==
    IF n = 0 THEN {<<>>}
    ELSE {Append(t, ch) : t \in TextsOfLen(n - 1), ch \in Alphabet}

Texts == UNION {TextsOfLen(n) : n \in 0..MaxLen}

ChunkInit ==
    /\ text \in Texts
    /\ chunk_size \in 1..MaxChunkSize
    /\ chunk_overlap \in 0..MaxOverlap
    /\ start = 0
    /\ chunks = <<>>
    /\ ranges = <<>>
    /\ cpc = "entry"
    /\ ServiceInit

ChunkNext == ChunkEntry \/ ChunkIter \/ ChunkReturn

ChunkSpec == ChunkInit /\ [][ChunkNext]_vars

----------------------------------------------------------------------------
(* Claims about the chunker *)

\* position p of the text lies inside some returned chunk
Covered(p) == \E i \in 1..Len(ranges) : ranges[i][1] <= p /\ p < ranges[i][2]

\* C1: for len(text) > chunk_size and 0 <= chunk_overlap < chunk_size, the
\* returned chunk ranges cover [0, len(text)) and no chunk starts after the
\* end of the chunk before it.
C1_Coverage ==
    (cpc = "returned" /\ Len(text) > chunk_size /\ chunk_overlap < chunk_size)
        => /\ \A p \in 0..(Len(text) - 1) : Covered(p)
           /\ \A i \in 1..(Len(ranges) - 1) : ranges[i + 1][1] <= ranges[i][2]

\* C2: the cursor strictly increases on every loop iteration, for every text,
\* every chunk_size >= 1 and every chunk_overlap, so the loop reaches the end
\* of the text.
C2_CursorAdvances ==
    [][(cpc = "loop" /\ start < Len(text)) => start' > start]_vars

----------------------------------------------------------------------------
(* Claims about /ingest *)

\* the chunks of the document of the ingest that has just answered
IngestRanges ==
    ChunkRanges(ingest.request.text.value, DEFAULT_CHUNK_SIZE, DEFAULT_CHUNK_OVERLAP)

\* C3: ingesting a text of exactly 2500 characters into a valid collection
\* answers chunks_processed = 3 and upserts exactly 3 records, every chunk has
\* at most 1000 characters and consecutive chunks share at most 200.
C3_ThreeChunks ==
    (ingest.status = "success" /\ Len(ingest.request.text.value) = DocLen)
        => /\ ingest.chunks_processed = 3
           /\ ingest.upserts = 3
           /\ Len(store[ingest.request.collection]) = 3
           /\ \A i \in 1..Len(IngestRanges) :
                 IngestRanges[i][2] - IngestRanges[i][1] <= DEFAULT_CHUNK_SIZE
           /\ \A i \in 1..(Len(IngestRanges) - 1) :
                 IngestRanges[i][2] - IngestRanges[i + 1][1] <= DEFAULT_CHUNK_OVERLAP

\* a request that names no configured collection, or brings neither a file
\* nor a non-empty text
InvalidIngest(r) ==
    \/ r.collection \notin CollectionSet
    \/ ~r.file.present /\ (~r.text.present \/ r.text.value = <<>>)

\* C9: an ingest request whose collection is not configured, or that brings
\* neither a file nor non-empty text, is answered with a client error, with no
\* embedding call and no upsert, and leaves the store as it was.
C9_RejectedBeforeEffects ==
    [][(ingest.status = "idle" /\ ingest'.status # "idle"
            /\ InvalidIngest(ingest'.request))
          => /\ ingest'.status = "400"
             /\ ingest'.embedCalls = 0
             /\ ingest'.upserts = 0
             /\ store' = store]_vars

\* an empty inline text is turned away although the store already holds points
C9_Witness ==
    /\ ingest.status = "400"
    /\ ingest.detail = "input"
    /\ ingest.request.collection \in CollectionSet
    /\ ingest.request.text.present
    /\ TotalStored > 0

----------------------------------------------------------------------------
(* Claims about /query *)

\* the handler has passed the sort and the truncation
Decided == pc = "done" \/ (pc = "failed" /\ failure = "chat")

HasSources == "sources" \in DOMAIN response

GeneralPrompt(messages) ==
    messages[1].content = <<"answer using your general knowledge">>

C5_NoResultsFixedAnswer ==
    (Decided /\ req.collection # "global" /\ search_results = <<>>)
        => /\ pc = "done"
           /\ response = [answer |-> NoInfoAnswer]
           /\ chatLog = <<>>

\* every search of a fan-out over a filled store failed
C5_Witness ==
    /\ pc = "done"
    /\ req.collection = None
    /\ req.top_k >= 1
    /\ TotalStored > 0
    /\ Len(returned) = Len(COLLECTIONS)
    /\ \A i \in 1..Len(returned) : ~returned[i].ok
    /\ response = [answer |-> NoInfoAnswer]

\* source src is a match that the search of its collection returned
ReturnedBy(src) ==
    \E i \in 1..Len(returned) :
        /\ returned[i].ok
        /\ returned[i].collection = src.collection
        /\ \E j \in 1..Len(returned[i].results) :
               SearchResult(returned[i].results[j], returned[i].collection) = src

\* C6: for a query without selector and top_k >= 1, the sources of the
\* response are in non-increasing order of score, are at most top_k, and each
\* carries the collection whose search returned it.
C6_FanoutRanking ==
    (pc = "done" /\ req.collection = None /\ req.top_k >= 1 /\ HasSources)
        => /\ \A i \in 1..(Len(response.sources) - 1) :
                 response.sources[i].score >= response.sources[i + 1].score
           /\ Len(response.sources) <= req.top_k
           /\ \A i \in 1..Len(response.sources) : ReturnedBy(response.sources[i])

\* two collections answered, the later with the better score, and the sort
\* has put its match first
C6_Witness ==
    /\ pc = "done"
    /\ req.collection = None
    /\ HasSources
    /\ Len(response.sources) = 2
    /\ response.sources[1].score > response.sources[2].score
    /\ \E i, j \in 1..Len(returned) :
          /\ i < j
          /\ returned[i].results # <<>>
          /\ returned[j].results # <<>>
          /\ response.sources[1].collection = returned[j].collection
          /\ response.sources[2].collection = returned[i].collection

\* the matches of the searches that succeeded, in the order they came back
RECURSIVE MergedOf(_)
MergedOf(rs) ==
    IF rs = <<>> THEN <<>>
    ELSE (IF rs[1].ok THEN Annotated(rs[1].results, rs[1].collection) ELSE <<>>)
            \o MergedOf(Tail(rs))

\* C7: in the fan-out for a left-out selector no search failure fails the
\* query, every collection is searched in configured order whatever failed
\* before it, and the merged list is exactly the matches of the searches that
\* succeeded.
C7_FanoutIsolation ==
    (req.collection = None /\ pc # "idle")
        => /\ failure # "search"
           /\ \A i \in 1..Len(searchLog) : searchLog[i].collection = COLLECTIONS[i]
           /\ (pc = "fanout" => search_results = MergedOf(returned))
           /\ (pc = "answer" => /\ Len(searchLog) = Len(COLLECTIONS)
                                /\ search_results = MergedOf(returned))
           /\ (Decided => Len(searchLog) = Len(COLLECTIONS))

\* the first search failed, a later one succeeded with a match, and the merged
\* list is that match
C7_Witness ==
    /\ pc = "answer"
    /\ req.collection = None
    /\ ~returned[1].ok
    /\ \E i \in 2..Len(returned) : returned[i].ok /\ returned[i].results # <<>>
    /\ search_results # <<>>

\* C8: on every path that searches the vector store, a search failure is
\* caught and the query does not fail.
C8_SearchFailureNeverFails == failure # "search"

\* the response of a query without selector, given top_k and the store's answers
AbsentSelectorResponse(top_k, answers) ==
    LET sorted == Truncate(SortDesc(MergedOf(answers)), top_k)
    IN  IF IsBlank(Context(sorted))
        THEN [answer |-> NoInfoAnswer]
        ELSE [answer |-> "chat answer", sources |-> sorted]

Unrecognized(sel) == sel \notin CollectionSet \cup {"global", None}

\* C10: a selector that is neither a configured collection nor "global" (the
\* empty string included) is not rejected: every configured collection is
\* searched once, in order, with limit max(1, top_k div number of
\* collections), and the response is the one a left-out selector gets for the
\* same store answers.
C10_UnrecognizedFallsBack ==
    (Unrecognized(req.collection) /\ pc # "idle" /\ failure # "embedding")
        => /\ failure # "search"
           /\ \A i \in 1..Len(searchLog) :
                 searchLog[i] = [collection |-> COLLECTIONS[i],
                                 limit |-> Max(1, req.top_k \div Len(COLLECTIONS))]
           /\ (pc = "fanout" <=> Len(searchLog) < Len(COLLECTIONS))
           /\ (pc \in {"answer", "done", "failed"} => Len(searchLog) = Len(COLLECTIONS))
           /\ (pc = "done" =>
                 response = AbsentSelectorResponse(req.top_k, returned))

\* an unrecognized selector got sources, one search having returned two matches
C10_Witness ==
    /\ pc = "done"
    /\ Unrecognized(req.collection)
    /\ HasSources
    /\ \E i \in 1..Len(returned) : Len(returned[i].results) = 2

====
